---- MODULE Spec2Model ----
(***************************************************************************)
(* Model of myst_nb/converter.py: the conversion of MyST text into a       *)
(* notebook (myst_to_notebook) and the dialect detection                   *)
(* (is_myst_notebook).                                                     *)
(*                                                                         *)
(* Strings are sequences of one-symbol strings, so that splitlines, join,  *)
(* rstrip and startswith are computed the way Python computes them.        *)
(* The block tokenizer, the YAML/JSON parsers and the directive parser are *)
(* external: their results are given by tables over a small set of         *)
(* contents, and the token list is read one token at a time as the loop    *)
(* of myst_to_notebook reaches it.                                         *)
(***************************************************************************)
EXTENDS Integers, Sequences, FiniteSets, TLC

VARIABLES
    text,               \* argument `text` (myst_to_notebook) / `inputstring`
    store_line_numbers, \* argument `store_line_numbers`
    tokens,             \* the part of the token list the loop has iterated over
    metadata,           \* the popped front_matter token, or NoToken
    metadata_nb,        \* notebook.metadata
    nesting_level,
    md_start_line,
    md_metadata,
    cells,              \* notebook.cells
    cell_origin,        \* history: for each cell, the token index and line range it was built from
    pc,                 \* position in the call
    error,              \* the exception that left the call, if any
    front_matter,       \* is_myst_notebook: the parsed front matter, once it is read
    result,             \* is_myst_notebook: the value returned
    first_call          \* the arguments' previous call of myst_to_notebook: its tokens and its outcome

vars == <<text, store_line_numbers, tokens, metadata, metadata_nb, nesting_level,
          md_start_line, md_metadata, cells, cell_origin, pc, error, front_matter, result, first_call>>

----------------------------------------------------------------------------
(* Bounds *)

MaxLines == 3
MaxTokens == 3
MaxNest == 1
MaxSpan == 2
MaxDetectLines == 4

\* lines of a text that is converted twice
MaxTwiceLines == 2

----------------------------------------------------------------------------
(* Strings *)

NL == "\n"
Whitespace == {" ", NL}

Min(a, b) == IF a < b THEN a ELSE b

\* str.startswith
StartsWith(s, prefix) ==
    /\ Len(s) >= Len(prefix)
    /\ SubSeq(s, 1, Len(prefix)) = prefix

\* "\n".join(lines)
RECURSIVE JoinLines(_)
JoinLines(ls) ==
    IF ls = <<>> THEN <<>>
    ELSE IF Len(ls) = 1 THEN ls[1]
    ELSE ls[1] \o <<NL>> \o JoinLines(Tail(ls))

\* str.split("\n"): the pieces between newlines, the last one possibly empty
RECURSIVE SplitNL(_, _)
SplitNL(s, cur) ==
    IF s = <<>> THEN <<cur>>
    ELSE IF Head(s) = NL THEN <<cur>> \o SplitNL(Tail(s), <<>>)
    ELSE SplitNL(Tail(s), Append(cur, Head(s)))

\* str.splitlines(): no line for the text after a final line break
SplitLines(s) ==
    LET pieces == SplitNL(s, <<>>)
    IN  IF pieces[Len(pieces)] = <<>>
        THEN SubSeq(pieces, 1, Len(pieces) - 1)
        ELSE pieces

\* str.rstrip()
RECURSIVE RStrip(_)
RStrip(s) ==
    IF s = <<>> THEN s
    ELSE IF s[Len(s)] \in Whitespace THEN RStrip(SubSeq(s, 1, Len(s) - 1))
    ELSE s

\* str.lstrip()
RECURSIVE LStrip(_)
LStrip(s) ==
    IF s = <<>> THEN s
    ELSE IF Head(s) \in Whitespace THEN LStrip(Tail(s))
    ELSE s

\* str.strip()
Strip(s) == LStrip(RStrip(s))

\* the while loop of strip_blank_lines
RECURSIVE DropLeadingNewlines(_)
DropLeadingNewlines(s) ==
    IF s # <<>> /\ StartsWith(s, <<NL>>) THEN DropLeadingNewlines(Tail(s))
    ELSE s

\* strip_blank_lines without its rstrip
strip_blank_lines_no_rstrip(s) == DropLeadingNewlines(s)

strip_blank_lines(s) == DropLeadingNewlines(RStrip(s))

\* lines[start:end]
Slice(ls, start, end) ==
    LET lo == Min(start, Len(ls))
        hi == Min(end, Len(ls))
    IN  IF lo >= hi THEN <<>> ELSE SubSeq(ls, lo + 1, hi)

IsBlank(s) == \A i \in 1..Len(s) : s[i] \in Whitespace

----------------------------------------------------------------------------
(* Metadata maps: functions from a set of keys to values *)

EmptyMap == [k \in {} |-> <<>>]
MapTagsHide == [k \in {"tags"} |-> <<"hide">>]
SOURCE_LINES == "_source_lines"

\* meta["_source_lines"] = [a, b]
WithSourceLines(meta, a, b) ==
    [k \in (DOMAIN meta) \cup {SOURCE_LINES} |->
        IF k = SOURCE_LINES THEN <<a, b>> ELSE meta[k]]

\* nbf.from_dict(d) followed by the optional line-number key
CellMeta(d, track, a, b) == IF track THEN WithSourceLines(d, a, b) ELSE d

----------------------------------------------------------------------------
(* Tokens *)

CODE_DIRECTIVE == <<"{code-cell}">>
RAW_DIRECTIVE == <<"{raw-cell}">>

NoMap == <<>>
NoToken == [type |-> "none", nesting |-> 0, info |-> <<>>, content |-> "", map |-> NoMap]

\* no call of myst_to_notebook has been made before
NoCall == [pc |-> "none", error |-> [kind |-> "none", cell_type |-> "", cell_index |-> -1, line |-> -1, msg |-> ""], cells |-> <<>>, metadata_nb |-> <<>>,
           tokens |-> <<>>, metadata |-> NoToken]

Token(type, nesting, info, content, map) ==
    [type |-> type, nesting |-> nesting, info |-> info, content |-> content, map |-> map]

\* info strings of fences: the directives, and a language
DirectiveInfos == { <<"{code-cell}">>, <<"{code-cell}", " ipython3">>, <<"{raw-cell}">> }
PlainInfo == <<"python">>

\* contents of fences: nothing, options and a body, malformed options
FenceContents == { "", ":tags: [hide]\na", ":tags: [\na" }

\* contents of block breaks: nothing, an object, malformed JSON, a JSON list
BreakContents == { "", "{\"tags\": [\"hide\"]}", "{\"tags\": [\"hide\"],}", "[1]" }

\* contents of the front matter: a map, malformed YAML
FrontContents == { "author: Matt", "author: [" }

\* parse_directive_text(content): options, body lines, or DirectiveParsingError
ParseDirectiveText(content) ==
    CASE content = "" -> [ok |-> TRUE, options |-> EmptyMap, body_lines |-> <<>>]
      [] content = ":tags: [hide]\na" ->
            [ok |-> TRUE, options |-> MapTagsHide, body_lines |-> << <<"a">> >>]
      [] OTHER -> [ok |-> FALSE, options |-> EmptyMap, body_lines |-> <<>>]

\* json.loads(content.strip()): a dict, another JSON value, or an exception
JsonLoads(content) ==
    CASE content = "{\"tags\": [\"hide\"]}" -> [ok |-> TRUE, dict |-> TRUE, value |-> MapTagsHide]
      [] content = "[1]" -> [ok |-> TRUE, dict |-> FALSE, value |-> EmptyMap]
      [] OTHER -> [ok |-> FALSE, dict |-> FALSE, value |-> EmptyMap]

\* yaml.safe_load(metadata.content): a map, or ParserError/ScannerError
YamlLoadFront(content) ==
    CASE content = "author: Matt" -> [ok |-> TRUE, value |-> [k \in {"author"} |-> <<"Matt">>]]
      [] OTHER -> [ok |-> FALSE, value |-> EmptyMap]

----------------------------------------------------------------------------
(* Errors *)

NoError == [kind |-> "none", cell_type |-> "", cell_index |-> -1, line |-> -1, msg |-> ""]

\* MystMetadataParsingError("{0} cell {1} at line {2} ...")
MystMetadataParsingError(cell_type, cell_index, line, msg) ==
    [kind |-> "MystMetadataParsingError", cell_type |-> cell_type,
     cell_index |-> cell_index, line |-> line, msg |-> msg]

\* an exception whose message names no cell and no line
OtherError(kind, msg) == [kind |-> kind, cell_type |-> "", cell_index |-> -1, line |-> -1, msg |-> msg]

\* read_fenced_cell citing the line counted from 0
read_fenced_cell_line0(token, cell_index, cell_type) ==
    LET parsed == ParseDirectiveText(token.content)
    IN  IF parsed.ok
        THEN [err |-> NoError, options |-> parsed.options, body_lines |-> parsed.body_lines]
        ELSE [err |-> MystMetadataParsingError(cell_type, cell_index, token.map[1],
                                               "could not be read"),
              options |-> EmptyMap, body_lines |-> <<>>]

\* read_fenced_cell(token, cell_index, cell_type)
read_fenced_cell(token, cell_index, cell_type) ==
    LET parsed == ParseDirectiveText(token.content)
    IN  IF parsed.ok
        THEN [err |-> NoError, options |-> parsed.options, body_lines |-> parsed.body_lines]
        ELSE [err |-> MystMetadataParsingError(cell_type, cell_index, token.map[1] + 1,
                                               "could not be read"),
              options |-> EmptyMap, body_lines |-> <<>>]

\* read_cell_metadata that keeps the pending map when the break has no content
read_cell_metadata_keep(token, cell_index) ==
    IF token.content = "" THEN [err |-> NoError, metadata |-> md_metadata]
    ELSE LET parsed == JsonLoads(token.content)
             line == token.map[1] + 1
         IN  IF ~parsed.ok
             THEN [err |-> MystMetadataParsingError("Markdown", cell_index, line, "could not be read"),
                   metadata |-> EmptyMap]
             ELSE IF ~parsed.dict
             THEN [err |-> MystMetadataParsingError("Markdown", cell_index, line, "is not a dict"),
                   metadata |-> EmptyMap]
             ELSE [err |-> NoError, metadata |-> parsed.value]

\* read_cell_metadata(token, cell_index)
read_cell_metadata(token, cell_index) ==
    IF token.content = "" THEN [err |-> NoError, metadata |-> EmptyMap]
    ELSE LET parsed == JsonLoads(token.content)
             line == token.map[1] + 1
         IN  IF ~parsed.ok
             THEN [err |-> MystMetadataParsingError("Markdown", cell_index, line, "could not be read"),
                   metadata |-> EmptyMap]
             ELSE IF ~parsed.dict
             THEN [err |-> MystMetadataParsingError("Markdown", cell_index, line, "is not a dict"),
                   metadata |-> EmptyMap]
             ELSE [err |-> NoError, metadata |-> parsed.value]

----------------------------------------------------------------------------
(* Cells *)

Cell(cell_type, source, meta) == [cell_type |-> cell_type, source |-> source, metadata |-> meta]

lines == SplitLines(text)

\* the end line of the slice, one line short at the end of the document
FlushEnd_short(token) == IF token = NoToken THEN Len(lines) - 1 ELSE token.map[1]

\* the end line of the slice taken as the end line of the token
FlushEnd_token_end(token) == IF token = NoToken THEN Len(lines) ELSE token.map[2]

\* _flush_markdown: the end line of the slice
FlushEnd(token) == IF token = NoToken THEN Len(lines) ELSE token.map[1]

\* _flush_markdown: the stripped source of the slice
FlushSource(start_line, token) ==
    strip_blank_lines(JoinLines(Slice(lines, start_line, FlushEnd(token))))

\* _flush_markdown that forgets the metadata of the cell
flush_markdown_no_metadata(cs, start_line, token, md) ==
    LET endline == FlushEnd(token)
        md_source == FlushSource(start_line, token)
        meta == CellMeta(EmptyMap, store_line_numbers, start_line, endline)
    IN  IF md_source # <<>>
        THEN Append(cs, Cell("markdown", md_source, meta))
        ELSE cs

\* _flush_markdown that inserts the cell at the front of the list
flush_markdown_insert(cs, start_line, token, md) ==
    LET endline == FlushEnd(token)
        md_source == FlushSource(start_line, token)
        meta == CellMeta(md, store_line_numbers, start_line, endline)
    IN  IF md_source # <<>>
        THEN <<Cell("markdown", md_source, meta)>> \o cs
        ELSE cs

\* _flush_markdown(start_line, token, md_metadata): the cell list afterwards
flush_markdown(cs, start_line, token, md) ==
    LET endline == FlushEnd(token)
        md_source == FlushSource(start_line, token)
        meta == CellMeta(md, store_line_numbers, start_line, endline)
    IN  IF md_source # <<>>
        THEN Append(cs, Cell("markdown", md_source, meta))
        ELSE cs

\* history of _flush_markdown: where the appended cell, if any, came from
flush_origin(os, start_line, token, at) ==
    IF FlushSource(start_line, token) # <<>>
    THEN Append(os, [tok |-> at, range |-> <<start_line, FlushEnd(token)>>])
    ELSE os

----------------------------------------------------------------------------
(* is_myst_notebook *)

DELIMITER == <<"---">>
DOCUMENT_END == <<"...">>

FMT_MYST == "jupytext: {text_representation: {format_name: myst}}"
FMT_MARKDOWN == "jupytext: {text_representation: {format_name: markdown}}"
KS_BOTH == "kernelspec: {name: python3, display_name: Python 3}"
KS_NAME == "kernelspec: {name: python3}"
KS_DISPLAY == "kernelspec: {display_name: Python 3}"
YAML_BAD == "jupytext: ["
YAML_SCALAR == "some text"

\* values of the local variable front_matter: not assigned, None, a string, a map
Unset == [kind |-> "unset", format_name |-> "", kernelspec |-> {}]
YamlNone == [kind |-> "none", format_name |-> "", kernelspec |-> {}]
YamlStr == [kind |-> "str", format_name |-> "", kernelspec |-> {}]
YamlMap(format_name, kernelspec) ==
    [kind |-> "map", format_name |-> format_name, kernelspec |-> kernelspec]

\* the value of the last line of ls that sets a key, given by `table`
RECURSIVE LastEntry(_, _, _)
LastEntry(ls, table, default) ==
    IF ls = <<>> THEN default
    ELSE LET l == ls[Len(ls)]
         IN  IF l # <<>> /\ l[1] \in DOMAIN table THEN table[l[1]]
             ELSE LastEntry(SubSeq(ls, 1, Len(ls) - 1), table, default)

FormatNames == [x \in {FMT_MYST, FMT_MARKDOWN} |-> IF x = FMT_MYST THEN "myst" ELSE "markdown"]
Kernelspecs ==
    [x \in {KS_BOTH, KS_NAME, KS_DISPLAY} |->
        CASE x = KS_BOTH -> {"name", "display_name"}
          [] x = KS_NAME -> {"name"}
          [] OTHER -> {"display_name"}]

\* yaml.safe_load(s): None for an empty document, a string for a plain
\* scalar, a map for key/value lines (a repeated key keeps its last value),
\* an exception otherwise
YamlLoad(s) ==
    LET ls == SelectSeq(SplitNL(s, <<>>), LAMBDA l : l # <<>>)
        has(x) == \E i \in 1..Len(ls) : ls[i] = <<x>>
    IN  IF ls = <<>> THEN [ok |-> TRUE, value |-> YamlNone]
        ELSE IF has(YAML_BAD) THEN [ok |-> FALSE, value |-> Unset]
        ELSE IF has(YAML_SCALAR)
        THEN IF Len(ls) = 1 THEN [ok |-> TRUE, value |-> YamlStr]
             ELSE [ok |-> FALSE, value |-> Unset]
        ELSE [ok |-> TRUE,
              value |-> YamlMap(LastEntry(ls, FormatNames, ""), LastEntry(ls, Kernelspecs, {}))]

\* the test of lines 39-40 made on the first line that is not empty
HasFrontMatter_skip_blank(ls) ==
    \E i \in 1..Len(ls) :
        /\ StartsWith(ls[i], DELIMITER)
        /\ \A j \in 1..(i - 1) : ls[j] = <<>>

\* lines 39-40: the text starts with a front matter
HasFrontMatter(ls) == ls # <<>> /\ StartsWith(ls[1], DELIMITER)

\* lines 42-46: the lines after the first, up to the closing delimiter
RECURSIVE YamlLines(_)
YamlLines(ls) ==
    IF ls = <<>> THEN <<>>
    ELSE IF StartsWith(Head(ls), DELIMITER) \/ StartsWith(Head(ls), DOCUMENT_END) THEN <<>>
    ELSE <<Head(ls)>> \o YamlLines(Tail(ls))

\* lines 57-65: the kernelspec field whose absence is reported
MissingKernelspec(fm) ==
    IF "name" \notin fm.kernelspec THEN "kernelspec/name"
    ELSE IF "display_name" \notin fm.kernelspec THEN "kernelspec/display_name"
    ELSE ""

\* the exception of lines 58 and 62
KernelspecError(field) == OtherError("IOError", field)

\* is_myst_notebook(inputstring): the value returned or the exception raised,
\* and the front matter that was read
is_myst_notebook(inputstring) ==
    LET ls == SplitLines(inputstring)
    IN  IF ~HasFrontMatter(ls)
        THEN [value |-> "False", err |-> NoError, front_matter |-> Unset]
        ELSE LET loaded == YamlLoad(JoinLines(YamlLines(Tail(ls))))
                 fm == loaded.value
             IN  IF ~loaded.ok
                 THEN [value |-> "raise", err |-> OtherError("YAMLError", ""), front_matter |-> Unset]
                 ELSE IF fm.kind # "map"
                 THEN [value |-> "raise", err |-> OtherError("AttributeError", "get"),
                       front_matter |-> fm]
                 ELSE IF fm.format_name # "myst"
                 THEN [value |-> "False", err |-> NoError, front_matter |-> fm]
                 ELSE IF MissingKernelspec(fm) # ""
                 THEN [value |-> "raise", err |-> KernelspecError(MissingKernelspec(fm)),
                       front_matter |-> fm]
                 ELSE [value |-> "True", err |-> NoError, front_matter |-> fm]

DetectLineSet ==
    { <<>>, DELIMITER, DOCUMENT_END, <<FMT_MYST>>, <<FMT_MARKDOWN>>, <<KS_BOTH>>, <<KS_NAME>>,
      <<KS_DISPLAY>>, <<YAML_BAD>>, <<YAML_SCALAR>> }

RECURSIVE DetectLineSeqs(_)
DetectLineSeqs(n) ==
    IF n = 0 THEN { <<>> }
    ELSE LET shorter == DetectLineSeqs(n - 1)
         IN  shorter \cup { Append(ls, l) : ls \in { x \in shorter : Len(x) = n - 1 },
                                             l \in DetectLineSet }

DetectTexts == { JoinLines(ls) : ls \in DetectLineSeqs(MaxDetectLines) }

----------------------------------------------------------------------------
(* The token list: parser.parse(text + "\n") *)

HasMap(t) == t.map # NoMap

\* the line the tokenizer has reached: the end of the last token with a span
LastEnd ==
    LET ends == { tokens[i].map[2] : i \in { j \in 1..Len(tokens) : HasMap(tokens[j]) } }
                \cup (IF metadata = NoToken THEN {0} ELSE {metadata.map[2]})
    IN  CHOOSE m \in ends : \A x \in ends : x <= m

\* spans a block of at most `span` lines can take after the cursor; the first
\* line of a block holds its marker, so it is not blank
Spans(from, span) ==
    { <<s, e>> \in (0..Len(lines)) \X (0..Len(lines)) :
        /\ from <= s /\ s < e /\ e <= s + span
        /\ ~IsBlank(lines[s + 1]) }

\* info and content of a fence: a directive with each content, a plain code block
FenceForms == (DirectiveInfos \X FenceContents) \cup { <<PlainInfo, "">> }

FenceTokens ==
    { Token("fence", 0, f[1], f[2], m) : f \in FenceForms, m \in Spans(LastEnd, MaxSpan) }

BreakTokens ==
    { Token("myst_block_break", 0, <<>>, content, m) :
        content \in BreakContents, m \in Spans(LastEnd, 1) }

\* the front matter starts at the first line and has its two delimiter lines
FrontTokens ==
    { Token("front_matter", 0, <<>>, content, m) :
        content \in FrontContents,
        m \in { x \in Spans(0, MaxSpan + 1) : x[1] = 0 /\ x[2] >= 2 /\ ~IsBlank(lines[x[2]]) } }

\* the other blocks: the opening and the closing of a container
OtherTokens ==
    { Token("bullet_list_open", 1, <<>>, "", NoMap),
      Token("bullet_list_close", -1, <<>>, "", NoMap) }

\* the tokenizer is a function of the text: a second call on the same text
\* reads the tokens of the first
SameTokenAsBefore(t) ==
    \/ first_call = NoCall
    \/ /\ Len(tokens) < Len(first_call.tokens)
       /\ t = first_call.tokens[Len(tokens) + 1]

SameFrontMatterAsBefore(t) == first_call = NoCall \/ t = first_call.metadata

SameEndAsBefore == first_call = NoCall \/ Len(tokens) = Len(first_call.tokens)

\* the tokens the tokenizer can yield next: blocks are opened before they are
\* closed and are nested at most MaxNest deep; the content of a fence inside
\* a container is never read, and one content stands for all of them
NextTokens ==
    { t \in FenceTokens \cup BreakTokens \cup OtherTokens :
        /\ nesting_level + t.nesting >= 0
        /\ nesting_level + t.nesting <= MaxNest
        /\ (nesting_level # 0 /\ t.type = "fence") => t.content = ""
        /\ SameTokenAsBefore(t) }

\* the test of line 193 with == in place of startswith
IsCodeFence_equal(t) == t.type = "fence" /\ t.info = CODE_DIRECTIVE

\* the tests of lines 193, 205 and 217
IsCodeFence(t) == t.type = "fence" /\ StartsWith(t.info, CODE_DIRECTIVE)
IsRawFence(t) == t.type = "fence" /\ ~StartsWith(t.info, CODE_DIRECTIVE) /\ StartsWith(t.info, RAW_DIRECTIVE)
IsBreak(t) == t.type = "myst_block_break"

\* the test of line 189 with < in place of !=
Nested_negative(level) == level < 0

\* the test of line 189
Nested(level) == level # 0

----------------------------------------------------------------------------
(* myst_to_notebook *)

LineSet == { <<>>, <<" ">>, <<"a">> }

RECURSIVE LineSeqs(_)
LineSeqs(n) ==
    IF n = 0 THEN { <<>> }
    ELSE LET shorter == LineSeqs(n - 1)
         IN  shorter \cup { Append(ls, l) : ls \in { x \in shorter : Len(x) = n - 1 }, l \in LineSet }

Texts == { JoinLines(ls) : ls \in LineSeqs(MaxLines) }

Init ==
    /\ text \in Texts
    /\ store_line_numbers \in BOOLEAN
    /\ tokens = <<>>
    /\ metadata = NoToken
    /\ metadata_nb = EmptyMap
    /\ nesting_level = 0
    /\ md_start_line = 0
    /\ md_metadata = EmptyMap
    /\ cells = <<>>
    /\ cell_origin = <<>>
    /\ pc = "start"
    /\ error = NoError
    /\ front_matter = Unset
    /\ result = "none"
    /\ first_call = NoCall

\* an exception that is recorded and then passed over
Raise_and_continue(err) ==
    /\ pc' = pc
    /\ error' = err

\* raise: the exception leaves myst_to_notebook
Raise(err) ==
    /\ pc' = "error"
    /\ error' = err

\* line 166 without the parsed front matter
notebook_metadata_empty(loaded) == EmptyMap

\* lines 160 and 166: the metadata of the new notebook
notebook_metadata(loaded) == loaded.value

\* lines 146-167, a blank text: the tokenizer yields no token and tokens[0] fails
StartBlank ==
    /\ pc = "start"
    /\ IsBlank(text)
    /\ Raise(OtherError("IndexError", "list index out of range"))
    /\ UNCHANGED <<text, store_line_numbers, tokens, metadata, metadata_nb, nesting_level,
                   md_start_line, md_metadata, cells, cell_origin, front_matter, result, first_call>>

\* lines 146-167, the first token is not a front matter
StartPlain ==
    /\ pc = "start"
    /\ ~IsBlank(text)
    /\ SameFrontMatterAsBefore(NoToken)
    /\ pc' = "loop"
    /\ UNCHANGED <<text, store_line_numbers, tokens, metadata, metadata_nb, nesting_level,
                   md_start_line, md_metadata, cells, cell_origin, error, front_matter, result, first_call>>

\* lines 146-167, the first token is a front matter: it is popped and parsed
StartFrontMatter ==
    /\ pc = "start"
    /\ ~IsBlank(text)
    /\ \E fm \in FrontTokens :
        LET loaded == YamlLoadFront(fm.content)
        IN  /\ SameFrontMatterAsBefore(fm)
            /\ metadata' = fm
            /\ md_start_line' = fm.map[2]
            /\ IF loaded.ok
               THEN /\ metadata_nb' = notebook_metadata(loaded)
                    /\ pc' = "loop"
                    /\ UNCHANGED error
               ELSE /\ Raise(OtherError("MystMetadataParsingError", "Notebook metadata"))
                    /\ UNCHANGED metadata_nb
    /\ UNCHANGED <<text, store_line_numbers, tokens, nesting_level,
                   md_metadata, cells, cell_origin, front_matter, result, first_call>>

CanRead == pc = "loop" /\ Len(tokens) < MaxTokens

\* lines 185-191: a token seen while the nesting level is not 0
ProcessNested ==
    /\ CanRead
    /\ \E token \in NextTokens :
        /\ Nested(nesting_level + token.nesting)
        /\ tokens' = Append(tokens, token)
        /\ nesting_level' = nesting_level + token.nesting
    /\ UNCHANGED <<text, store_line_numbers, metadata, metadata_nb, md_start_line,
                   md_metadata, cells, cell_origin, pc, error, front_matter, result, first_call>>

\* lines 193-215: a top-level fence of the code or raw directive
ProcessFence(token, cell_type, name) ==
    LET flushed == flush_markdown(cells, md_start_line, token, md_metadata)
        origin == flush_origin(cell_origin, md_start_line, token, Len(tokens) + 1)
        read == read_fenced_cell(token, Len(flushed), name)
        meta == CellMeta(read.options, store_line_numbers, token.map[1] + 1, token.map[2])
    IN  /\ tokens' = Append(tokens, token)
        /\ nesting_level' = nesting_level + token.nesting
        /\ IF read.err = NoError
           THEN /\ cells' = Append(flushed, Cell(cell_type, JoinLines(read.body_lines), meta))
                /\ cell_origin' = Append(origin, [tok |-> Len(tokens) + 1, range |-> token.map])
                /\ md_metadata' = EmptyMap
                /\ md_start_line' = token.map[2]
                /\ UNCHANGED <<pc, error>>
           ELSE /\ cells' = flushed
                /\ cell_origin' = origin
                /\ Raise(read.err)
                /\ UNCHANGED <<md_metadata, md_start_line>>
        /\ UNCHANGED <<text, store_line_numbers, metadata, metadata_nb, front_matter, result, first_call>>

\* lines 193-203
ProcessCodeFence ==
    /\ CanRead
    /\ \E token \in NextTokens :
        /\ ~Nested(nesting_level + token.nesting)
        /\ IsCodeFence(token)
        /\ ProcessFence(token, "code", "Code")

\* lines 205-215
ProcessRawFence ==
    /\ CanRead
    /\ \E token \in NextTokens :
        /\ ~Nested(nesting_level + token.nesting)
        /\ IsRawFence(token)
        /\ ProcessFence(token, "raw", "Raw")

\* lines 217-220: a top-level block break
ProcessBreak ==
    /\ CanRead
    /\ \E token \in NextTokens :
        /\ ~Nested(nesting_level + token.nesting)
        /\ IsBreak(token)
        /\ LET flushed == flush_markdown(cells, md_start_line, token, md_metadata)
               origin == flush_origin(cell_origin, md_start_line, token, Len(tokens) + 1)
               read == read_cell_metadata(token, Len(flushed))
           IN  /\ tokens' = Append(tokens, token)
               /\ nesting_level' = nesting_level + token.nesting
               /\ cells' = flushed
               /\ cell_origin' = origin
               /\ IF read.err = NoError
                  THEN /\ md_metadata' = read.metadata
                       /\ md_start_line' = token.map[2]
                       /\ UNCHANGED <<pc, error>>
                  ELSE /\ Raise(read.err)
                       /\ UNCHANGED <<md_metadata, md_start_line>>
    /\ UNCHANGED <<text, store_line_numbers, metadata, metadata_nb, front_matter, result, first_call>>

\* lines 185-220: a top-level token that matches no branch
ProcessOther ==
    /\ CanRead
    /\ \E token \in NextTokens :
        /\ ~Nested(nesting_level + token.nesting)
        /\ ~IsCodeFence(token) /\ ~IsRawFence(token) /\ ~IsBreak(token)
        /\ tokens' = Append(tokens, token)
        /\ nesting_level' = nesting_level + token.nesting
    /\ UNCHANGED <<text, store_line_numbers, metadata, metadata_nb, md_start_line,
                   md_metadata, cells, cell_origin, pc, error, front_matter, result, first_call>>

\* lines 222-224: the token list is exhausted (every block it opened is
\* closed, and a text that is not blank has at least one token)
Finish ==
    /\ pc = "loop"
    /\ nesting_level = 0
    /\ tokens # <<>> \/ metadata # NoToken
    /\ SameEndAsBefore
    /\ cells' = flush_markdown(cells, md_start_line, NoToken, md_metadata)
    /\ cell_origin' = flush_origin(cell_origin, md_start_line, NoToken, Len(tokens) + 1)
    /\ pc' = "done"
    /\ UNCHANGED <<text, store_line_numbers, tokens, metadata, metadata_nb, nesting_level,
                   md_start_line, md_metadata, error, front_matter, result, first_call>>

Next ==
    \/ StartBlank
    \/ StartPlain
    \/ StartFrontMatter
    \/ ProcessNested
    \/ ProcessCodeFence
    \/ ProcessRawFence
    \/ ProcessBreak
    \/ ProcessOther
    \/ Finish

Spec == Init /\ [][Next]_vars

----------------------------------------------------------------------------
(* myst_to_notebook called twice with the same arguments *)

\* line 183 with the map kept in a place that outlives the call
initial_md_metadata_shared(previous) == previous

\* line 183: md_metadata = {}
initial_md_metadata(previous) == EmptyMap

\* the call has returned or raised, and is made again with the same text and
\* the same flag: lines 150-183 set up the state of the new call
CallAgain ==
    /\ pc \in {"done", "error"}
    /\ first_call = NoCall
    /\ first_call' = [pc |-> pc, error |-> error, cells |-> cells, metadata_nb |-> metadata_nb,
                      tokens |-> tokens, metadata |-> metadata]
    /\ tokens' = <<>>
    /\ metadata' = NoToken
    /\ md_start_line' = 0
    /\ metadata_nb' = EmptyMap
    /\ cells' = <<>>
    /\ cell_origin' = <<>>
    /\ nesting_level' = 0
    /\ md_metadata' = initial_md_metadata(md_metadata)
    /\ pc' = "start"
    /\ error' = NoError
    /\ UNCHANGED <<text, store_line_numbers, front_matter, result>>

NextTwice ==
    \/ StartBlank
    \/ StartPlain
    \/ StartFrontMatter
    \/ ProcessNested
    \/ ProcessCodeFence
    \/ ProcessRawFence
    \/ ProcessBreak
    \/ ProcessOther
    \/ Finish
    \/ CallAgain

\* the texts converted twice, lines 127-128
TwiceTexts == { JoinLines(ls) : ls \in LineSeqs(MaxTwiceLines) }

InitTwice ==
    /\ Init
    /\ text \in TwiceTexts

SpecTwice == InitTwice /\ [][NextTwice]_vars

----------------------------------------------------------------------------
(* is_myst_notebook as a call of its own *)

InitDetect ==
    /\ text \in DetectTexts
    /\ store_line_numbers = FALSE
    /\ tokens = <<>>
    /\ metadata = NoToken
    /\ metadata_nb = EmptyMap
    /\ nesting_level = 0
    /\ md_start_line = 0
    /\ md_metadata = EmptyMap
    /\ cells = <<>>
    /\ cell_origin = <<>>
    /\ pc = "detect"
    /\ error = NoError
    /\ front_matter = Unset
    /\ result = "none"
    /\ first_call = NoCall

\* lines 32-66
Detect ==
    /\ pc = "detect"
    /\ LET r == is_myst_notebook(text)
       IN  /\ result' = r.value
           /\ error' = r.err
           /\ front_matter' = r.front_matter
    /\ pc' = "detected"
    /\ UNCHANGED <<text, store_line_numbers, tokens, metadata, metadata_nb, nesting_level,
                   md_start_line, md_metadata, cells, cell_origin, first_call>>

NextDetect == Detect

SpecDetect == InitDetect /\ [][NextDetect]_vars

----------------------------------------------------------------------------
(* The token list as the loop saw it *)

\* the running nesting level after token i
RECURSIVE LevelAt(_)
LevelAt(i) == IF i = 0 THEN 0 ELSE LevelAt(i - 1) + tokens[i].nesting

\* the cell type a fence asks for by its info string
DirectiveOf(t) ==
    IF t.type # "fence" THEN "none"
    ELSE IF StartsWith(t.info, CODE_DIRECTIVE) THEN "code"
    ELSE IF StartsWith(t.info, RAW_DIRECTIVE) THEN "raw"
    ELSE "none"

TopLevelFence(i) == LevelAt(i) = 0 /\ DirectiveOf(tokens[i]) # "none"
TopLevelBreak(i) == LevelAt(i) = 0 /\ tokens[i].type = "myst_block_break"
Structural(i) == TopLevelFence(i) \/ TopLevelBreak(i)

\* the last top-level fence or break before token j, 0 if there is none
PrevStructural(j) ==
    LET before == { i \in 1..Len(tokens) : i < j /\ Structural(i) }
    IN  IF before = {} THEN 0 ELSE CHOOSE m \in before : \A x \in before : x <= m

\* the line after token p, for p = 0 the line after the front matter
EndOf(p) ==
    IF p > 0 THEN tokens[p].map[2]
    ELSE IF metadata # NoToken THEN metadata.map[2] ELSE 0

\* a metadata map without the line-range key
Base(meta) == [k \in (DOMAIN meta) \ {SOURCE_LINES} |-> meta[k]]

\* the map a break declares
BreakMap(t) == IF t.content = "" THEN EmptyMap ELSE JsonLoads(t.content).value

Markdown(k) == cells[k].cell_type = "markdown"

----------------------------------------------------------------------------
(* C1 *)

RECURSIVE ExpectedFenceCells(_)
ExpectedFenceCells(i) ==
    IF i = 0 THEN <<>>
    ELSE IF TopLevelFence(i)
    THEN Append(ExpectedFenceCells(i - 1),
                <<DirectiveOf(tokens[i]), JoinLines(ParseDirectiveText(tokens[i].content).body_lines)>>)
    ELSE ExpectedFenceCells(i - 1)

RECURSIVE ActualFenceCells(_)
ActualFenceCells(k) ==
    IF k = 0 THEN <<>>
    ELSE IF Markdown(k) THEN ActualFenceCells(k - 1)
    ELSE Append(ActualFenceCells(k - 1), <<cells[k].cell_type, cells[k].source>>)

\* C1: when the conversion succeeds, the Code and Raw cells of the notebook
\* are, in order, the cells of the fences seen at nesting level 0 whose info
\* starts with the code or the raw directive (Code if it starts with the code
\* directive, else Raw), and of nothing else.
C1_FenceCellsMatchTopLevelFences ==
    pc = "done" => ActualFenceCells(Len(cells)) = ExpectedFenceCells(Len(tokens))

C1_Witness ==
    /\ pc = "done"
    /\ \E k \in 1..Len(cells) : cells[k].cell_type = "code"
    /\ \E k \in 1..Len(cells) : cells[k].cell_type = "raw"
    /\ \E i \in 1..Len(tokens) : tokens[i].type = "fence" /\ ~TopLevelFence(i)

----------------------------------------------------------------------------
(* C2 *)

NestedDirectiveFence(i) == LevelAt(i) # 0 /\ DirectiveOf(tokens[i]) # "none"

\* a flush has run after token i
FlushedAfter(i) == pc = "done" \/ \E j \in 1..Len(tokens) : j > i /\ Structural(j)

NestedStepFrame ==
    (tokens' # tokens /\ nesting_level' # 0) =>
        /\ cells' = cells
        /\ md_start_line' = md_start_line
        /\ md_metadata' = md_metadata

NestedFenceInMarkdown ==
    \A i \in 1..Len(tokens) :
        NestedDirectiveFence(i) =>
            /\ \A k \in 1..Len(cells) : cell_origin[k].tok # i
            /\ FlushedAfter(i) =>
                \E k \in 1..Len(cells) :
                    /\ Markdown(k)
                    /\ cell_origin[k].range[1] <= tokens[i].map[1]
                    /\ tokens[i].map[2] <= cell_origin[k].range[2]

\* C2: a token processed while the nesting level (with its own delta added)
\* is not 0 changes only the nesting level: no cell is appended, the markdown
\* start line and the pending metadata stay; a directive fence nested in
\* another block gives no cell and its lines lie in the line range of the
\* Markdown cell flushed next.
C2_NestedTokenChangesOnlyNesting == [][NestedStepFrame]_vars /\ []NestedFenceInMarkdown

C2_Witness ==
    /\ pc = "done"
    /\ \E i \in 1..Len(tokens) :
        /\ NestedDirectiveFence(i)
        /\ \E k \in 1..Len(cells) : Markdown(k) /\ cell_origin[k].range[2] >= tokens[i].map[2]

----------------------------------------------------------------------------
(* C3 *)

\* the first Markdown cell flushed after token i, 0 if there is none
FirstMarkdownAfter(i) ==
    LET after == { k \in 1..Len(cells) : Markdown(k) /\ cell_origin[k].tok > i }
    IN  IF after = {} THEN 0 ELSE CHOOSE m \in after : \A x \in after : m <= x

\* the break was read without an error
BreakRead(i) == TopLevelBreak(i) /\ ~(pc = "error" /\ i = Len(tokens))

\* no other break lies between break i and token j
LastBreakBefore(i, j) == \A x \in 1..Len(tokens) : (i < x /\ x < j) => ~TopLevelBreak(x)

\* C3 as claimed: the first Markdown cell materialized after a break (and
\* before any other break) carries that break's metadata map, and no later
\* Markdown cell is under that break.
C3_FirstMarkdownAfterBreakCarriesIt ==
    \A i \in 1..Len(tokens) :
        BreakRead(i) =>
            LET k == FirstMarkdownAfter(i)
            IN  (k > 0 /\ LastBreakBefore(i, cell_origin[k].tok)) =>
                    /\ Base(cells[k].metadata) = BreakMap(tokens[i])
                    /\ \A k2 \in 1..Len(cells) :
                        (Markdown(k2) /\ k2 > k) => PrevStructural(cell_origin[k2].tok) # i

\* C3 as amended: a Markdown cell carries the metadata map of the break that
\* is the last top-level fence or break before the flush that made the cell,
\* and no metadata if that token is a fence or there is none: the map of a
\* break is pending for the next flush only, whether that flush makes a cell
\* or not.
C3_MarkdownCarriesPrecedingBreak ==
    \A k \in 1..Len(cells) :
        Markdown(k) =>
            LET p == PrevStructural(cell_origin[k].tok)
            IN  Base(cells[k].metadata) =
                    IF p > 0 /\ TopLevelBreak(p) THEN BreakMap(tokens[p]) ELSE EmptyMap

C3_Witness ==
    /\ pc = "done"
    /\ \E k \in 1..Len(cells) : Markdown(k) /\ Base(cells[k].metadata) = MapTagsHide
    /\ \E k \in 1..Len(cells) : Markdown(k) /\ Base(cells[k].metadata) = EmptyMap

----------------------------------------------------------------------------
(* C4 *)

\* C4 as claimed: for a text with no front matter, no top-level directive
\* fence and no break, the call returns one Markdown cell whose source is the
\* text without its leading and trailing whitespace, or no cell at all if the
\* text is blank.
C4_PlainTextGivesOneTrimmedCell ==
    (metadata = NoToken /\ \A i \in 1..Len(tokens) : ~Structural(i)) =>
        /\ pc # "error"
        /\ pc = "done" =>
            IF IsBlank(text) THEN cells = <<>>
            ELSE cells = << Cell("markdown", Strip(text),
                                 CellMeta(EmptyMap, store_line_numbers, 0, Len(lines))) >>

----------------------------------------------------------------------------
(* C5 *)

\* only blank lines, and at least one, lie between token j and the fence or
\* break before it
BlankRunBefore(j) ==
    LET from == EndOf(PrevStructural(j))
    IN  /\ from < tokens[j].map[1]
        /\ IsBlank(JoinLines(Slice(lines, from, tokens[j].map[1])))

\* C5: no Markdown cell has an empty or whitespace-only source, and a flush
\* over a run of blank lines between two top-level fences or breaks appends
\* no cell.
C5_NoBlankMarkdownCell ==
    /\ \A k \in 1..Len(cells) : Markdown(k) => ~IsBlank(cells[k].source)
    /\ \A j \in 1..Len(tokens) :
        (Structural(j) /\ BlankRunBefore(j)) =>
            \A k \in 1..Len(cells) : ~(Markdown(k) /\ cell_origin[k].tok = j)

C5_Witness ==
    /\ pc = "done"
    /\ \E j \in 1..Len(tokens) : Structural(j) /\ PrevStructural(j) > 0 /\ BlankRunBefore(j)

----------------------------------------------------------------------------
(* C6 *)

IsPrefix(a, b) == Len(a) <= Len(b) /\ SubSeq(b, 1, Len(a)) = a

CellsInLineOrder ==
    \A k \in 1..(Len(cells) - 1) : cell_origin[k].range[1] < cell_origin[k + 1].range[1]

\* C6: every step only appends to the cell list, and the first lines of the
\* line ranges successive cells were built from are strictly increasing.
C6_CellsAppendOnlyInSourceOrder == [][IsPrefix(cells, cells')]_vars /\ []CellsInLineOrder

C6_Witness ==
    /\ pc = "done"
    /\ Len(cells) >= 3
    /\ \E k \in 1..Len(cells) : Markdown(k)

----------------------------------------------------------------------------
(* C10 *)

Unparsable(t) ==
    \/ DirectiveOf(t) # "none" /\ ~ParseDirectiveText(t.content).ok
    \/ /\ t.type = "myst_block_break" /\ t.content # ""
       /\ ~(JsonLoads(t.content).ok /\ JsonLoads(t.content).dict)

\* C10: a top-level fence or break whose content cannot be parsed raises an
\* error that cites the number of cells produced so far (the Markdown cell
\* flushed just before the token included), the line of the token's opening
\* marker counted from 1, and for a fence the cell type Code or Raw.
C10_ErrorCitesCellAndLine ==
    \A i \in 1..Len(tokens) :
        (Structural(i) /\ Unparsable(tokens[i])) =>
            /\ pc = "error"
            /\ i = Len(tokens)
            /\ error.kind = "MystMetadataParsingError"
            /\ error.cell_index = Len(cells)
            /\ error.line = tokens[i].map[1] + 1
            /\ error.cell_type = CASE DirectiveOf(tokens[i]) = "code" -> "Code"
                                   [] DirectiveOf(tokens[i]) = "raw" -> "Raw"
                                   [] OTHER -> "Markdown"

C10_Witness ==
    /\ pc = "error"
    /\ tokens # <<>>
    /\ tokens[Len(tokens)].type = "fence"
    /\ \E k \in 1..Len(cells) : Markdown(k) /\ cell_origin[k].tok = Len(tokens)
    /\ error.cell_index >= 2

----------------------------------------------------------------------------
(* C7, C8, C9 *)

\* the front matter that was read carries the dialect tag
TagMatches == front_matter.kind = "map" /\ front_matter.format_name = "myst"

\* C7 as claimed: with the dialect tag matched, a missing kernelspec name or
\* display_name raises MystMetadataParsingError naming the missing field, and
\* with both present the detection returns true.
C7_MissingKernelspecRaisesMetadataError ==
    (pc = "detected" /\ TagMatches) =>
        IF {"name", "display_name"} \subseteq front_matter.kernelspec
        THEN result = "True" /\ error = NoError
        ELSE /\ result = "raise"
             /\ error.kind = "MystMetadataParsingError"
             /\ error.msg = (IF "name" \notin front_matter.kernelspec
                             THEN "kernelspec/name" ELSE "kernelspec/display_name")

\* C8 as claimed: for a text that does not carry the dialect tag (no front
\* matter, an empty or malformed one, one that is not a map, another
\* format_name) the detection returns false and raises nothing.
C8_NoErrorWithoutDialectTag ==
    (pc = "detected" /\ ~TagMatches) => (result = "False" /\ error = NoError)

\* the first line that is not empty, <<>> if there is none
RECURSIVE FirstNonEmpty(_)
FirstNonEmpty(ls) ==
    IF ls = <<>> THEN <<>>
    ELSE IF Head(ls) # <<>> THEN Head(ls)
    ELSE FirstNonEmpty(Tail(ls))

\* the detection went on to read a front matter (it did not return at line 40)
ReadsFrontMatter == ~(result = "False" /\ front_matter = Unset)

\* C9 as claimed: the text is treated as having a front matter exactly when
\* its first non-empty line starts with the delimiter, and is otherwise
\* classified as not this dialect without an error.
C9_FirstNonEmptyLineDecides ==
    pc = "detected" =>
        IF StartsWith(FirstNonEmpty(lines), DELIMITER)
        THEN ReadsFrontMatter
        ELSE result = "False" /\ error = NoError

\* C9 as amended: the text is treated as having a front matter exactly when
\* its first line starts with the delimiter; a text that is empty or whose
\* first line does not start with it (a delimiter after blank lines included)
\* is classified as not this dialect without an error.
C9_FirstLineDecides ==
    pc = "detected" =>
        IF lines # <<>> /\ StartsWith(lines[1], DELIMITER)
        THEN ReadsFrontMatter
        ELSE result = "False" /\ error = NoError /\ front_matter = Unset

C9_Witness ==
    /\ pc = "detected"
    /\ Len(lines) >= 2
    /\ lines[1] = <<>>
    /\ lines[2] = DELIMITER
    /\ result = "False"

----------------------------------------------------------------------------
(* C11 *)

AbortStep ==
    error # NoError =>
        /\ tokens' = tokens
        /\ cells' = cells
        /\ pc' = pc

AbortedState ==
    error # NoError =>
        /\ pc = "error"
        /\ \A k \in 1..Len(cells) :
            cell_origin[k].tok = Len(tokens) + 1 => Markdown(k)
        /\ \A k \in 1..Len(cells) :
            (tokens # <<>> /\ cell_origin[k].tok = Len(tokens)) => Markdown(k)

\* C11: an error aborts the conversion: once a token has raised, no later
\* token is read, no cell is appended (the failing token gives no Code or
\* Raw cell), and the call never reaches its return.
C11_ErrorAbortsConversion == [][AbortStep]_vars /\ []AbortedState

C11_Witness ==
    /\ pc = "error"
    /\ error.kind = "MystMetadataParsingError"
    /\ tokens # <<>>
    /\ Len(tokens) < MaxTokens
    /\ tokens[Len(tokens)].map[2] < Len(lines)
    /\ ~IsBlank(JoinLines(Slice(lines, tokens[Len(tokens)].map[2], Len(lines))))

----------------------------------------------------------------------------
(* C12 *)

ExpectedNotebookMetadata ==
    IF metadata # NoToken THEN YamlLoadFront(metadata.content).value ELSE EmptyMap

\* C12: the notebook metadata is the parsed front matter when the first
\* token is a front matter and the empty map otherwise, and no step of the
\* token loop or the final flush changes it.
C12_DocumentMetadataSetOnce ==
    /\ [](pc \in {"loop", "done"} => metadata_nb = ExpectedNotebookMetadata)
    /\ [][pc = "loop" => metadata_nb' = metadata_nb]_vars

C12_Witness ==
    /\ pc = "done"
    /\ metadata # NoToken
    /\ metadata_nb # EmptyMap
    /\ cells # <<>>
    /\ tokens # <<>>

----------------------------------------------------------------------------
(* C14 *)

\* C14 as claimed: without line tracking no cell has the line-range key, and
\* with it every cell, Markdown, Code or Raw, has under that key the first
\* line and the line after the last line of the lines it was built from.
C14_LineRangeIsHalfOpenSpan ==
    \A k \in 1..Len(cells) :
        IF store_line_numbers
        THEN /\ SOURCE_LINES \in DOMAIN cells[k].metadata
             /\ cells[k].metadata[SOURCE_LINES] = cell_origin[k].range
        ELSE SOURCE_LINES \notin DOMAIN cells[k].metadata

----------------------------------------------------------------------------
(* C15 *)

\* C15 as claimed, for the detection: a missing kernelspec field raises
\* MystMetadataParsingError, and the error carries the ordinal of a cell and
\* a source line counted from 1.
C15_DetectionErrorNamesCellAndLine ==
    (pc = "detected" /\ TagMatches /\ error # NoError) =>
        /\ error.kind = "MystMetadataParsingError"
        /\ error.cell_index >= 0
        /\ error.line >= 1

----------------------------------------------------------------------------
(* C16 *)

RECURSIVE DropLeadingBlankLines(_)
DropLeadingBlankLines(ls) ==
    IF ls # <<>> /\ IsBlank(Head(ls)) THEN DropLeadingBlankLines(Tail(ls)) ELSE ls

RECURSIVE DropTrailingBlankLines(_)
DropTrailingBlankLines(ls) ==
    IF ls # <<>> /\ IsBlank(ls[Len(ls)])
    THEN DropTrailingBlankLines(SubSeq(ls, 1, Len(ls) - 1))
    ELSE ls

\* C16 as claimed: the source of a Markdown cell is the sliced lines without
\* the empty or whitespace-only lines at their start and at their end, so it
\* neither starts nor ends with such a line.
C16_MarkdownSourceHasNoBoundaryBlankLine ==
    \A k \in 1..Len(cells) :
        Markdown(k) =>
            LET sliced == Slice(lines, cell_origin[k].range[1], cell_origin[k].range[2])
                kept == SplitNL(cells[k].source, <<>>)
            IN  /\ ~IsBlank(kept[1])
                /\ ~IsBlank(kept[Len(kept)])
                /\ kept = DropTrailingBlankLines(DropLeadingBlankLines(sliced))

----------------------------------------------------------------------------
(* C17 *)

\* the pending metadata after the tokens read so far
PendingFromTokens ==
    LET p == PrevStructural(Len(tokens) + 1)
    IN  IF p > 0 /\ TopLevelBreak(p) THEN BreakMap(tokens[p]) ELSE EmptyMap

\* C17: the pending markdown metadata is the map of the last top-level break
\* alone (the empty map when that break has no content), never merged with
\* an earlier map, and it is empty after a top-level Code or Raw fence.
C17_BreakReplacesPendingMetadata ==
    pc \in {"loop", "done"} => md_metadata = PendingFromTokens

C17_Witness ==
    /\ pc = "done"
    /\ \E i \in 1..Len(tokens), j \in 1..Len(tokens) :
        /\ i < j
        /\ TopLevelBreak(i) /\ BreakMap(tokens[i]) = MapTagsHide
        /\ TopLevelBreak(j) /\ tokens[j].content = ""
        /\ \E k \in 1..Len(cells) :
            Markdown(k) /\ cell_origin[k].tok > j /\ Base(cells[k].metadata) = EmptyMap

----------------------------------------------------------------------------
(* C18 *)

\* the cells made by the flush after the last token
FinalCells == { k \in 1..Len(cells) : cell_origin[k].tok = Len(tokens) + 1 }

\* the lines after the last top-level fence or break
TailLines == Slice(lines, EndOf(PrevStructural(Len(tokens) + 1)), Len(lines))

\* C18: at the return, the text after the last top-level fence or break, if
\* it is not blank, is the last cell: one Markdown cell with that text and
\* the metadata pending then; if it is blank the final flush adds no cell.
C18_FinalFlush ==
    pc = "done" =>
        IF IsBlank(JoinLines(TailLines))
        THEN FinalCells = {}
        ELSE /\ FinalCells = { Len(cells) }
             /\ Markdown(Len(cells))
             /\ cells[Len(cells)].source = strip_blank_lines(JoinLines(TailLines))
             /\ Base(cells[Len(cells)].metadata) = PendingFromTokens

C18_Witness ==
    /\ pc = "done"
    /\ Len(cells) >= 2
    /\ FinalCells = { Len(cells) }
    /\ Base(cells[Len(cells)].metadata) = MapTagsHide

----------------------------------------------------------------------------
(* C19 *)

MarkdownRangesDisjoint ==
    \A k \in 1..Len(cells), k2 \in 1..Len(cells) :
        (Markdown(k) /\ Markdown(k2) /\ k < k2) =>
            cell_origin[k].range[2] <= cell_origin[k2].range[1]

\* the range of cell k has no line of the block from line a to line b
Apart(k, a, b) == cell_origin[k].range[2] <= a \/ b <= cell_origin[k].range[1]

MarkdownApartFromBlocks ==
    \A k \in 1..Len(cells) :
        Markdown(k) =>
            /\ metadata # NoToken => Apart(k, metadata.map[1], metadata.map[2])
            /\ \A i \in 1..Len(tokens) :
                Structural(i) => Apart(k, tokens[i].map[1], tokens[i].map[2])

\* C19: in the loop the markdown start line is the end line of the last
\* top-level directive fence or break processed (of the front matter, or 0,
\* if there is none) and it never decreases; the line ranges of the Markdown
\* cells are pairwise disjoint and hold no line of the front matter or of a
\* top-level directive fence or break.
C19_MarkdownStartLine ==
    /\ [](pc \in {"loop", "done"} => md_start_line = EndOf(PrevStructural(Len(tokens) + 1)))
    /\ [][md_start_line' >= md_start_line]_vars
    /\ [](MarkdownRangesDisjoint /\ MarkdownApartFromBlocks)

C19_Witness ==
    /\ pc = "done"
    /\ \E i \in 1..Len(tokens), k \in 1..Len(cells), k2 \in 1..Len(cells) :
        /\ Structural(i)
        /\ Markdown(k) /\ cell_origin[k].range[2] = tokens[i].map[1]
        /\ Markdown(k2) /\ cell_origin[k2].range[1] = tokens[i].map[2]

----------------------------------------------------------------------------
(* C13 *)

\* C13: a second call of myst_to_notebook with the same text and the same
\* line-tracking flag ends as the first did: the same return or the same
\* error, the same cells and the same notebook metadata; nothing the first
\* call left behind reaches the second.
C13_SecondCallGivesSameOutput ==
    (first_call # NoCall /\ pc \in {"done", "error"}) =>
        /\ pc = first_call.pc
        /\ error = first_call.error
        /\ cells = first_call.cells
        /\ metadata_nb = first_call.metadata_nb

\* the second call has returned after a first call that read a block break,
\* made a cell and ended with metadata still pending
C13_Witness ==
    /\ first_call # NoCall
    /\ pc = "done"
    /\ cells # <<>>
    /\ \E i \in 1..Len(first_call.tokens) : IsBreak(first_call.tokens[i])
    /\ md_metadata = MapTagsHide

====
